---- MODULE Spec2Model ----
(***************************************************************************)
(* The playback south plugin (playback.py): module globals, the plugin     *)
(* lifecycle calls made by the host thread, and the Producer and Consumer  *)
(* threads of the most recently started session.                           *)
(*                                                                         *)
(* Threads of a superseded session keep their own queue and condition      *)
(* (self.queue, self.condition) and only read the global wait_event, so    *)
(* they cannot act on a later session; the model follows the threads of    *)
(* the latest session from plugin_start until the next plugin_start.       *)
(*                                                                         *)
(* Durations are integers in microseconds.                                 *)
(***************************************************************************)
EXTENDS Integers, Sequences, FiniteSets, TLC

VARIABLES
    producer, consumer,     \* module globals: None or the session's thread object
    BUCKET_SIZE,            \* module global, line 148
    wait_event,             \* module global Event: its flag
    handle,                 \* the handle the host holds (plugin_init's result)
    restart,                \* handle['restart'] as last set by plugin_reconfigure
    mpc,                    \* position of the host thread inside a plugin call
    sessions,               \* number of plugin_start calls so far
    phandle,                \* self.handle of the session's threads
    bucket,                 \* the session's Queue: its buffered items, oldest first
    maxsize,                \* the session's Queue: its maxsize
    lock,                   \* the session's Condition: owner and count of its RLock
    is_stopped,             \* Thread._is_stopped of the session's two thread objects
    ppc,                    \* Producer.run: position
    iter_sensor_data,       \* Producer: generator state (rows yielded, finished)
    eof_reached,            \* Producer.run local
    sensor_data,            \* Producer.run local
    next_iteration_secs,    \* Producer.run local: <<>> while unbound, else <<v>>
    prv_readings_ts,        \* Producer: <<>> for None, else <<t>>
    timeout,                \* Producer: the timeout of the wait in progress
    expired,                \* Producer: that timeout has elapsed
    time_stamp,             \* Producer.run local
    ticks,                  \* Producer: loop iterations begun
    cpc,                    \* Consumer.run: position
    pushed,                 \* history: items put into the session's Queue, in order
    taken,                  \* history: items got by the Consumer and submitted
    dispatched,             \* event loop: submitted save_data tasks it has run
    task_outcome            \* event loop: how the last of them ended

gvars == <<producer, consumer, BUCKET_SIZE, wait_event, handle, restart, mpc,
           sessions>>
qvars == <<phandle, bucket, maxsize, lock, is_stopped>>
pvars == <<ppc, iter_sensor_data, eof_reached, sensor_data, next_iteration_secs,
           prv_readings_ts, timeout, expired, time_stamp, ticks>>
cvars == <<cpc>>
hvars == <<pushed, taken>>
dvars == <<dispatched, task_outcome>>
vars == <<gvars, qvars, pvars, cvars, hvars, dvars>>

(***************************************************************************)
(* Bounds of the model.                                                    *)
(***************************************************************************)
MaxStarts == 2      \* plugin_start calls in one behaviour
MaxTicks == 5       \* Producer loop iterations in one session

None == "None"
Micros == 1000 * 1000

(***************************************************************************)
(* Recordings: the data rows of the CSV files (header already split off).  *)
(* A row carries its content v, its timestamp column ts (seconds) and how  *)
(* it reads: "ok"; "badcell", a cell on which ast.literal_eval raises      *)
(* something other than ValueError (an empty cell: SyntaxError), which     *)
(* leaves the generator of get_data; "badts", a timestamp column strptime  *)
(* rejects. In "late" the timestamps run backwards.                        *)
(***************************************************************************)
Row(v, ts, kind) == [v |-> v, ts |-> ts, kind |-> kind]

Files == [ empty |-> << >>,
           three |-> << Row(1, 10, "ok"), Row(2, 40, "ok"), Row(3, 70, "ok") >>,
           holed |-> << Row(1, 10, "ok"), Row(2, 40, "badcell"), Row(3, 70, "ok") >>,
           late  |-> << Row(1, 70, "ok"), Row(2, 40, "badts"), Row(3, 10, "ok") >> ]

FileNames == {"empty", "three", "holed", "late"}

(***************************************************************************)
(* Configurations over small values, and the ones the host starts         *)
(* sessions with: those plugin_init accepts (lines 181-198), with one      *)
(* value for burstSize outside burst mode (nothing reads it), burst mode   *)
(* taken at sampleRate 2 without timestampFromFile, and the recording      *)
(* "late" replayed by its timestamps only.                                 *)
(***************************************************************************)
AllConfigs ==
    [ csvFilename : FileNames \cup {"missing"},
      timestampFromFile : BOOLEAN,
      sampleRate : {0, 1, 2},
      ingestMode : {"batch", "burst"},
      burstSize : {2, 3},
      burstInterval : {1000},
      repeatLoop : BOOLEAN ]

plugin_init_errors(config) ==
    \/ config.csvFilename \notin FileNames
    \/ config.sampleRate < 1 \/ config.sampleRate > 1000000
    \/ config.burstSize < 1
    \/ config.burstInterval < 1
    \/ config.ingestMode \notin {"burst", "realtime", "batch"}

Configs ==
    { c \in AllConfigs : /\ ~plugin_init_errors(c)
                         /\ c.csvFilename = "late" =>
                                (c.timestampFromFile /\ c.sampleRate = 1)
                         /\ (c.timestampFromFile /\ c.sampleRate # 1) =>
                                c.csvFilename = "three"
                         /\ c.ingestMode # "burst" => c.burstSize = 2
                         /\ c.ingestMode = "burst" =>
                                (c.sampleRate = 2 /\ ~c.timestampFromFile) }

NoHandle == [ csvFilename |-> "missing", timestampFromFile |-> FALSE, sampleRate |-> 0,
              ingestMode |-> "batch", burstSize |-> 2, burstInterval |-> 1000,
              repeatLoop |-> FALSE ]

(***************************************************************************)
(* Producer.__init__, lines 293-302: self.period. round(x, d) keeps d      *)
(* decimals of a value in seconds, so in microseconds it rounds to a       *)
(* multiple of 10^(6-d) (to the microsecond when d >= 6).                  *)
(***************************************************************************)
RECURSIVE StrLen(_)
StrLen(n) == IF n < 10 THEN 1 ELSE 1 + StrLen(n \div 10)

RECURSIVE Pow10(_)
Pow10(k) == IF k <= 0 THEN 1 ELSE 10 * Pow10(k - 1)

\* round(num / den seconds, d), in microseconds (ties away from the even case
\* do not arise for the values used)
RoundMicros(num, den, d) ==
    LET g == Pow10(6 - d)
    IN  ((2 * num * Micros + den * g) \div (2 * den * g)) * g

period(config) ==
    IF config.ingestMode = "burst"
    THEN RoundMicros(config.burstInterval, 1000, StrLen(config.burstInterval) + 1)
    ELSE IF config.sampleRate = 0
         THEN Micros                            \* ZeroDivisionError: 1.0
         ELSE RoundMicros(1, config.sampleRate, StrLen(config.sampleRate) + 1)

(***************************************************************************)
(* Producer.get_data, lines 343-362, as a generator: its state is the      *)
(* number of rows yielded and whether it has finished. next() on it gives  *)
(* the row, StopIteration, or the exception a cell raised (after which the *)
(* generator is finished, as Python generators are).                       *)
(***************************************************************************)
get_data == [pos |-> 0, done |-> FALSE]

IterNext(rows, it) ==
    IF it.done \/ it.pos >= Len(rows)
    THEN [out |-> "StopIteration", it |-> [it EXCEPT !.done = TRUE]]
    ELSE IF rows[it.pos + 1].kind = "badcell"
         THEN [out |-> "Exception", it |-> [it EXCEPT !.done = TRUE]]
         ELSE [out |-> "row", it |-> [it EXCEPT !.pos = it.pos + 1]]

(***************************************************************************)
(* Producer.get_time_stamp_diff, lines 364-382.                            *)
(***************************************************************************)
get_time_stamp_diff(readings, prv) ==
    IF readings.kind = "badts"
    THEN [out |-> "Exception", c |-> 0, prv |-> prv]
    ELSE [out |-> "ok",
          c |-> IF prv # << >> THEN (readings.ts - prv[1]) * Micros ELSE 0,
          prv |-> <<readings.ts>>]

(***************************************************************************)
(* Producer.run, lines 396-408: the burst loop, k reads still to make.     *)
(***************************************************************************)
\* variant: the burst loop runs once too often
BurstCount_OneMore(config) == config.burstSize + 1

\* line 397: the number of reads of one burst
BurstCount(config) == config.burstSize

RECURSIVE BurstRead(_, _, _, _)
BurstRead(rows, it, k, burst_data_points) ==
    IF k = 0
    THEN [out |-> "ok", it |-> it, burst_data_points |-> burst_data_points]
    ELSE LET n == IterNext(rows, it)
         IN  IF n.out = "row"
             THEN BurstRead(rows, n.it, k - 1,
                            Append(burst_data_points, rows[n.it.pos].v))
             ELSE [out |-> n.out, it |-> n.it, burst_data_points |-> burst_data_points]

(***************************************************************************)
(* Producer.run, lines 387-430: one iteration up to the call of            *)
(* wait_event.wait. sensor_data is the sequence of row contents in the     *)
(* dict ({} is << >>); next_iteration_secs keeps its value when the        *)
(* iteration does not assign it.                                           *)
(***************************************************************************)
\* variant: the sample period paces every mode
NominalDelay_Period(config, c) == period(config)

\* lines 419-422: next_iteration_secs, c being get_time_stamp_diff's result
NominalDelay(config, c) == IF config.timestampFromFile THEN c ELSE period(config)

Assemble(config, it, nis, prv) ==
    LET rows == Files[config.csvFilename]
    IN  IF config.ingestMode = "burst"
        THEN LET b == BurstRead(rows, it, BurstCount(config), << >>)
             IN  [ it |-> b.it, prv |-> prv,
                   eof |-> (b.out = "StopIteration"),
                   sensor_data |-> IF b.out = "Exception" THEN << >>
                                   ELSE b.burst_data_points,
                   nis |-> IF b.out = "ok" THEN <<period(config)>> ELSE nis ]
        ELSE LET n == IterNext(rows, it)
             IN  IF n.out # "row"
                 THEN [ it |-> n.it, prv |-> prv, eof |-> (n.out = "StopIteration"),
                        sensor_data |-> << >>, nis |-> nis ]
                 ELSE LET readings == rows[n.it.pos]
                          d == get_time_stamp_diff(readings, prv)
                      IN  IF config.timestampFromFile
                          THEN [ it |-> n.it, prv |-> d.prv, eof |-> FALSE,
                                 sensor_data |-> <<readings.v>>,
                                 nis |-> IF d.out = "ok"
                                         THEN <<NominalDelay(config, d.c)>>
                                         ELSE nis ]
                          ELSE [ it |-> n.it, prv |-> prv, eof |-> FALSE,
                                 sensor_data |-> <<readings.v>>,
                                 nis |-> <<NominalDelay(config, 0)>> ]

(***************************************************************************)
(* The primitives of threading and queue the plugin calls.                 *)
(***************************************************************************)
FreeLock == [owner |-> None, count |-> 0]

\* variant: the acquire is never skipped
IsOwned_Never(t) == FALSE

\* Condition._is_owned() of thread t
IsOwned(t) == lock.owner = t

\* Condition.acquire() by thread t can proceed (the RLock is re-entrant)
CanAcquire(t) == lock.owner \in {None, t}

Acquired(t) == [owner |-> t, count |-> lock.count + 1]

\* Condition.release() by its owner
Released == IF lock.count <= 1 THEN FreeLock ELSE [lock EXCEPT !.count = lock.count - 1]

\* Queue.full()
Full(q) == 0 < maxsize /\ maxsize <= Len(q)

\* Queue.join() returns: no put is left without its task_done (none is ever called)
unfinished_tasks == Len(pushed)

\* variant: a wait that ignores the flag (time.sleep)
EventWaitReturns_Sleep == timeout <= 0 \/ expired

\* Event.wait(timeout) can return: the flag is set, or there is nothing (left) to wait
EventWaitReturns == wait_event \/ timeout <= 0 \/ expired

\* time.time() - time_start at line 432: reading was fast, or slower than any period
Elapsed == {0, 2 * Micros}

(***************************************************************************)
(* Consumer.save_data, lines 471-488, by what Ingest.add_readings does:    *)
(* it returns ("none") or raises one of a few exception classes. The       *)
(* result is what the task logs and the exception the task ends with.      *)
(***************************************************************************)
BaseOf == [ CancelledError |-> "BaseException", RuntimeError |-> "Exception",
            NotImplementedError |-> "RuntimeError", RuntimeWarning |-> "Warning",
            Warning |-> "Exception", ValueError |-> "Exception",
            Exception |-> "BaseException" ]

RECURSIVE IsInstance(_, _)
IsInstance(e, cls) ==
    e = cls \/ (e \in DOMAIN BaseOf /\ IsInstance(BaseOf[e], cls))

AddReadingsOutcomes == {"none", "CancelledError", "RuntimeError", "NotImplementedError",
                        "RuntimeWarning", "Warning", "ValueError"}

NoOutcome == [raised |-> "none", logged |-> FALSE, error |-> None]

\* variant: the except Exception clause comes first
save_data_ExceptionFirst(e) ==
    IF e = "none"
    THEN NoOutcome
    ELSE IF IsInstance(e, "Exception")
         THEN [raised |-> e, logged |-> TRUE, error |-> "DataRetrievalError"]
         ELSE [raised |-> e, logged |-> FALSE, error |-> None]

save_data(e) ==
    IF e = "none"
    THEN NoOutcome
    ELSE IF IsInstance(e, "CancelledError") \/ IsInstance(e, "RuntimeError")
         THEN [raised |-> e, logged |-> FALSE, error |-> None]            \* pass
         ELSE IF IsInstance(e, "RuntimeWarning")
              THEN [raised |-> e, logged |-> TRUE, error |-> None]
              ELSE IF IsInstance(e, "Exception")
                   THEN [raised |-> e, logged |-> TRUE,
                         error |-> "DataRetrievalError"]
                   ELSE [raised |-> e, logged |-> FALSE, error |-> e]

(***************************************************************************)
(* Initial state: the module as imported (lines 144-149), no session.      *)
(***************************************************************************)
Init ==
    /\ producer = None /\ consumer = None
    /\ BUCKET_SIZE = 1
    /\ wait_event = FALSE
    /\ handle = NoHandle /\ restart = ""
    /\ mpc = "idle" /\ sessions = 0
    /\ phandle = NoHandle /\ bucket = << >> /\ maxsize = 0
    /\ lock = FreeLock
    /\ is_stopped = [P |-> FALSE, C |-> FALSE]
    /\ ppc = "none" /\ cpc = "none"
    /\ iter_sensor_data = get_data /\ eof_reached = FALSE
    /\ sensor_data = << >> /\ next_iteration_secs = << >>
    /\ prv_readings_ts = << >> /\ timeout = 0 /\ expired = FALSE
    /\ time_stamp = 0 /\ ticks = 0
    /\ pushed = << >> /\ taken = << >>
    /\ dispatched = 0 /\ task_outcome = NoOutcome

(***************************************************************************)
(* plugin_start, lines 217-231, up to the call of bucket.join(). The host  *)
(* starts a session only when none is running, with the handle plugin_init *)
(* made of a configuration or, after a reconfiguration that asked for a    *)
(* restart, with the handle plugin_reconfigure returned.                   *)
(***************************************************************************)
NewBucketSize(h) == IF ~h.timestampFromFile THEN h.sampleRate ELSE BUCKET_SIZE

plugin_start(h) ==
    /\ mpc = "idle" /\ producer = None /\ consumer = None
    /\ sessions < MaxStarts
    /\ restart = "yes" => h = handle
    /\ handle' = h /\ restart' = ""
    /\ BUCKET_SIZE' = NewBucketSize(h)
    /\ lock' = FreeLock
    /\ bucket' = << >> /\ maxsize' = BUCKET_SIZE'
    /\ sessions' = sessions + 1
    /\ producer' = "Producer" /\ consumer' = "Consumer"
    /\ phandle' = h
    /\ is_stopped' = [P |-> FALSE, C |-> FALSE]
    /\ iter_sensor_data' = get_data
    /\ prv_readings_ts' = << >>
    /\ eof_reached' = FALSE /\ sensor_data' = << >> /\ next_iteration_secs' = << >>
    /\ timeout' = 0 /\ expired' = FALSE /\ time_stamp' = 0 /\ ticks' = 0
    /\ wait_event' = FALSE
    /\ ppc' = "tick" /\ cpc' = "acquire"
    /\ pushed' = << >> /\ taken' = << >>
    /\ dispatched' = 0 /\ task_outcome' = NoOutcome
    /\ mpc' = "join"

\* plugin_start, line 232: bucket.join()
plugin_start_join ==
    /\ mpc = "join"
    /\ unfinished_tasks = 0
    /\ mpc' = "idle"
    /\ UNCHANGED <<producer, consumer, BUCKET_SIZE, wait_event, handle, restart,
                   sessions, qvars, pvars, cvars, hvars, dvars>>

(***************************************************************************)
(* plugin_shutdown, lines 271-282, statement by statement: it runs on the  *)
(* host thread while the session's threads run.                            *)
(***************************************************************************)
plugin_shutdown_call ==
    /\ mpc = "idle"
    /\ mpc' = "sd_set"
    /\ UNCHANGED <<producer, consumer, BUCKET_SIZE, wait_event, handle, restart,
                   sessions, qvars, pvars, cvars, hvars, dvars>>

\* line 273
plugin_shutdown_set ==
    /\ mpc = "sd_set"
    /\ wait_event' = TRUE
    /\ mpc' = "sd_producer"
    /\ UNCHANGED <<producer, consumer, BUCKET_SIZE, handle, restart,
                   sessions, qvars, pvars, cvars, hvars, dvars>>

\* Thread._stop() with _tstate_lock = None: marks the thread object stopped;
\* the thread itself goes on running
ThreadStop(t) == [is_stopped EXCEPT ![t] = TRUE]

\* variant: the producer stopped without the None check
StopsProducer_Unchecked == TRUE

\* lines 274 and 278: the None checks
StopsProducer == producer # None

StopsConsumer == consumer # None

\* lines 274-277; _stop() on None would raise AttributeError
plugin_shutdown_producer ==
    /\ mpc = "sd_producer"
    /\ IF StopsProducer
       THEN /\ is_stopped' = IF producer # None THEN ThreadStop("P") ELSE is_stopped
            /\ producer' = None
            /\ mpc' = IF producer # None THEN "sd_consumer" ELSE "raised"
       ELSE UNCHANGED <<is_stopped, producer>> /\ mpc' = "sd_consumer"
    /\ UNCHANGED <<consumer, BUCKET_SIZE, wait_event, handle, restart,
                   sessions, phandle, bucket, maxsize, lock, pvars, cvars, hvars, dvars>>

\* lines 278-282
plugin_shutdown_consumer ==
    /\ mpc = "sd_consumer"
    /\ IF StopsConsumer
       THEN /\ is_stopped' = IF consumer # None THEN ThreadStop("C") ELSE is_stopped
            /\ consumer' = None
            /\ mpc' = IF consumer # None THEN "idle" ELSE "raised"
       ELSE UNCHANGED <<is_stopped, consumer>> /\ mpc' = "idle"
    /\ UNCHANGED <<producer, BUCKET_SIZE, wait_event, handle, restart,
                   sessions, phandle, bucket, maxsize, lock, pvars, cvars, hvars, dvars>>

(***************************************************************************)
(* plugin_reconfigure, lines 244-260. The host reconfigures a running      *)
(* session, with the handle's own configuration or one that differs from   *)
(* it in one field: another of the configurations above, or one that       *)
(* plugin_init rejects.                                                    *)
(***************************************************************************)
Keys == {"csvFilename", "timestampFromFile", "sampleRate", "ingestMode",
         "burstSize", "burstInterval", "repeatLoop"}

\* utils.get_diff(handle, new_config)
get_diff(old, new) == { k \in Keys : old[k] # new[k] }

\* variant: repeatLoop is missing from the list
RestartKeys_NoLoop == {"assetName", "csvFilename", "headerRow", "fieldNames", "readingCols",
                       "timestampFromFile", "timestampCol", "timestampFormat",
                       "sampleRate", "ingestMode", "burstSize", "burstInterval"}

\* lines 248-252
RestartKeys == {"assetName", "csvFilename", "headerRow", "fieldNames", "readingCols",
                "timestampFromFile", "timestampCol", "timestampFormat", "sampleRate",
                "ingestMode", "burstSize", "burstInterval", "repeatLoop"}

NewConfigs(h) ==
    { c \in AllConfigs : /\ Cardinality(get_diff(h, c)) <= 1
                         /\ c \in Configs \/ plugin_init_errors(c) }

\* plugin_shutdown as plugin_reconfigure calls it (line 253). What it writes
\* after the signal (the two globals, the thread objects' flags) is read by no
\* thread, so the call is taken in one step.
ShutdownStopped ==
    [P |-> is_stopped.P \/ producer # None, C |-> is_stopped.C \/ consumer # None]

plugin_reconfigure(nc) ==
    /\ mpc = "idle" /\ producer # None
    /\ IF get_diff(handle, nc) \cap RestartKeys # {}
       THEN /\ wait_event' = TRUE
            /\ is_stopped' = ShutdownStopped
            /\ producer' = None /\ consumer' = None
            /\ IF plugin_init_errors(nc)                   \* line 254 raises
               THEN UNCHANGED <<handle, restart>>
               ELSE handle' = nc /\ restart' = "yes"
       ELSE /\ handle' = nc /\ restart' = "no"
            /\ UNCHANGED <<wait_event, is_stopped, producer, consumer>>
    /\ UNCHANGED <<BUCKET_SIZE, mpc, sessions, phandle, bucket, maxsize, lock,
                   pvars, cvars, hvars, dvars>>

(***************************************************************************)
(* Producer.run, lines 384-450.                                            *)
(***************************************************************************)
\* lines 387-432: assemble the unit and call wait_event.wait; an unbound
\* next_iteration_secs raises UnboundLocalError there, which ends the thread
ProducerTick ==
    /\ ppc = "tick" /\ ticks < MaxTicks
    /\ LET a == Assemble(phandle, iter_sensor_data, next_iteration_secs, prv_readings_ts)
       IN  /\ iter_sensor_data' = a.it
           /\ prv_readings_ts' = a.prv
           /\ sensor_data' = a.sensor_data
           /\ next_iteration_secs' = a.nis
           /\ eof_reached' = (eof_reached \/ a.eof)
           /\ ticks' = ticks + 1
           /\ IF a.nis = << >>
              THEN ppc' = "crashed" /\ timeout' = 0
              ELSE /\ ppc' = "wait"
                   /\ \E e \in Elapsed : timeout' = a.nis[1] - e
    /\ expired' = FALSE
    /\ UNCHANGED <<gvars, qvars, cvars, hvars, dvars, time_stamp>>

\* line 432: the timeout of the wait runs out
ProducerWaitElapse ==
    /\ ppc = "wait"
    /\ ~EventWaitReturns
    /\ expired' = TRUE
    /\ UNCHANGED <<gvars, qvars, cvars, hvars, dvars, ppc, iter_sensor_data, eof_reached,
                   sensor_data, next_iteration_secs, prv_readings_ts, timeout,
                   time_stamp, ticks>>

\* lines 432-433: the wait returns, the unit is stamped
ProducerWaitReturn ==
    /\ ppc = "wait"
    /\ EventWaitReturns
    /\ ppc' = "acquire"
    /\ time_stamp' = ticks
    /\ timeout' = 0 /\ expired' = FALSE
    /\ UNCHANGED <<gvars, qvars, cvars, hvars, dvars, iter_sensor_data, eof_reached,
                   sensor_data, next_iteration_secs, prv_readings_ts, ticks>>

\* lines 435-436
ProducerAcquire ==
    /\ ppc = "acquire"
    /\ IF IsOwned("P")
       THEN UNCHANGED lock
       ELSE CanAcquire("P") /\ lock' = Acquired("P")
    /\ ppc' = "put"
    /\ UNCHANGED <<gvars, phandle, bucket, maxsize, is_stopped, cvars, hvars, dvars,
                   iter_sensor_data, eof_reached, sensor_data, next_iteration_secs,
                   prv_readings_ts, timeout, expired, time_stamp, ticks>>

\* line 438
Envelope == [data |-> sensor_data, ts |-> time_stamp]

\* line 437: the unit is put
PutsUnit == Len(sensor_data) > 0

\* variant: every tick signals
Signals_EveryTick(q) == TRUE

\* line 440: the Consumer is signalled
Signals(q) == Full(q) \/ eof_reached

\* variant: a put that does not wait for room
PutCanProceed_NoWait == TRUE

\* line 439: Queue.put blocks while the queue is full
PutCanProceed == PutsUnit => ~Full(bucket)

\* lines 437-450
ProducerPut ==
    /\ ppc = "put"
    /\ PutCanProceed
    /\ bucket' = IF PutsUnit THEN Append(bucket, Envelope) ELSE bucket
    /\ pushed' = IF PutsUnit THEN Append(pushed, Envelope) ELSE pushed
    /\ lock' = IF Signals(bucket') THEN Released ELSE lock
    /\ IF eof_reached
       THEN IF phandle.repeatLoop
            THEN iter_sensor_data' = get_data /\ eof_reached' = FALSE /\ ppc' = "tick"
            ELSE ppc' = "done" /\ UNCHANGED <<iter_sensor_data, eof_reached>>
       ELSE ppc' = "tick" /\ UNCHANGED <<iter_sensor_data, eof_reached>>
    /\ UNCHANGED <<gvars, phandle, maxsize, is_stopped, cvars, taken, dvars,
                   sensor_data, next_iteration_secs, prv_readings_ts, timeout,
                   expired, time_stamp, ticks>>

(***************************************************************************)
(* Consumer.run, lines 461-469.                                            *)
(***************************************************************************)
\* line 464
ConsumerAcquire ==
    /\ cpc = "acquire"
    /\ CanAcquire("C") /\ lock' = Acquired("C")
    /\ cpc' = "drain"
    /\ UNCHANGED <<gvars, phandle, bucket, maxsize, is_stopped, pvars, hvars, dvars>>

\* variant: the newest item is taken first
QueueGet_Newest(q) == [item |-> q[Len(q)], rest |-> SubSeq(q, 1, Len(q) - 1)]

\* line 466: Queue.get()
QueueGet(q) == [item |-> Head(q), rest |-> Tail(q)]

\* lines 465-467: one get, submitted for dispatch
ConsumerGet ==
    /\ cpc = "drain"
    /\ Len(bucket) > 0
    /\ taken' = Append(taken, QueueGet(bucket).item)
    /\ bucket' = QueueGet(bucket).rest
    /\ UNCHANGED <<gvars, phandle, maxsize, lock, is_stopped, pvars, cvars, pushed,
                   dvars>>

\* lines 465, 468-469: the queue is empty; notify, release
ConsumerRelease ==
    /\ cpc = "drain"
    /\ ~(Len(bucket) > 0)
    /\ lock' = Released
    /\ cpc' = "acquire"
    /\ UNCHANGED <<gvars, phandle, bucket, maxsize, is_stopped, pvars, hvars, dvars>>

(***************************************************************************)
(* The event loop of the host thread (line 224, asyncio.get_event_loop())  *)
(* runs the save_data tasks the Consumer submitted, oldest first, while    *)
(* the host thread is inside no plugin call.                               *)
(***************************************************************************)
DispatchTask(e) ==
    /\ mpc = "idle"
    /\ dispatched < Len(taken)
    /\ dispatched' = dispatched + 1
    /\ task_outcome' = save_data(e)
    /\ UNCHANGED <<gvars, qvars, pvars, cvars, hvars>>

(***************************************************************************)
(* Spec: the host thread's plugin calls and the two threads of a session.  *)
(***************************************************************************)
Next ==
    \/ producer = None /\ \E h \in Configs : plugin_start(h)
    \/ plugin_start_join
    \/ plugin_shutdown_call
    \/ plugin_shutdown_set
    \/ plugin_shutdown_producer
    \/ plugin_shutdown_consumer
    \/ producer # None /\ \E nc \in NewConfigs(handle) : plugin_reconfigure(nc)
    \/ ProducerTick
    \/ ProducerWaitElapse
    \/ ProducerWaitReturn
    \/ ProducerAcquire
    \/ ProducerPut
    \/ ConsumerAcquire
    \/ ConsumerGet
    \/ ConsumerRelease

Spec == Init /\ [][Next]_vars

(***************************************************************************)
(* SpecDispatch: one session over the recording "three" in batch mode,     *)
(* its two threads, and the event loop running the dispatch tasks.         *)
(***************************************************************************)
DispatchConfigs ==
    { c \in Configs : c.csvFilename = "three" /\ c.ingestMode = "batch"
                                              /\ ~c.timestampFromFile }

NextDispatch ==
    \/ producer = None /\ \E h \in DispatchConfigs : plugin_start(h)
    \/ plugin_start_join
    \/ ProducerTick
    \/ ProducerWaitElapse
    \/ ProducerWaitReturn
    \/ ProducerAcquire
    \/ ProducerPut
    \/ ConsumerAcquire
    \/ ConsumerGet
    \/ ConsumerRelease
    \/ \E e \in AddReadingsOutcomes : DispatchTask(e)

SpecDispatch == Init /\ [][NextDispatch]_vars

(***************************************************************************)
(* SpecFair: SpecDispatch under fair scheduling: a thread (and the event   *)
(* loop) whose next step stays possible takes it.                          *)
(***************************************************************************)
Fairness ==
    /\ WF_vars(ProducerTick) /\ WF_vars(ProducerWaitElapse)
    /\ WF_vars(ProducerWaitReturn) /\ WF_vars(ProducerAcquire)
    /\ WF_vars(ProducerPut)
    /\ WF_vars(ConsumerAcquire) /\ WF_vars(ConsumerGet) /\ WF_vars(ConsumerRelease)
    /\ WF_vars(\E e \in AddReadingsOutcomes : DispatchTask(e))

SpecFair == Init /\ [][NextDispatch]_vars /\ Fairness

(***************************************************************************)
(* Properties.                                                             *)
(***************************************************************************)
Started == ppc # "none"

\* the data rows of the session's recording
recording == Files[phandle.csvFilename]

\* plugin_shutdown has returned for the session being followed
ShutdownReturned == Started /\ mpc = "idle" /\ producer = None /\ consumer = None

\* C1: the items the Consumer has taken and submitted are, in order, the first
\* items the Producer pushed: none taken twice, none skipped, none reordered.
C1_TakenIsPrefixOfPushed ==
    /\ Len(taken) <= Len(pushed)
    /\ \A i \in 1..Len(taken) : taken[i] = pushed[i]
    /\ \A i, j \in 1..Len(taken) : i # j => taken[i] # taken[j]

\* the Consumer has drained a full queue of two and the Producer has pushed again
C1_Witness ==
    /\ Len(taken) >= 2 /\ Len(pushed) > Len(taken)
    /\ taken[1] # taken[2]

\* C2: the queue never holds more items than the maxsize it was created with.
C2_QueueWithinCapacity == Len(bucket) <= maxsize

\* the Producer is held in put by a full queue
C2_Witness == ppc = "put" /\ PutsUnit /\ Full(bucket) /\ Len(bucket) = maxsize

\* C3 (as claimed): a session's queue has capacity 1 under timestampFromFile and
\* capacity sampleRate otherwise.
C3_CapacityFollowsConfig ==
    Started => maxsize = IF phandle.timestampFromFile THEN 1 ELSE phandle.sampleRate

\* C4 (as claimed): once plugin_shutdown has returned, the session's Producer
\* pushes nothing more.
C4_NoPushAfterShutdown ==
    [][ShutdownReturned => Len(pushed') <= Len(pushed)]_vars

\* C5 (as claimed): once plugin_shutdown has returned, the Consumer, between two
\* drains, does not begin another one.
C5_ConsumerStopsAfterShutdown ==
    [][(ShutdownReturned /\ wait_event /\ cpc = "acquire") => cpc' # "drain"]_vars

\* C6: with the signal set, a Producer in its pacing wait can return and no more
\* of the timeout runs, whether the signal was set before or during the wait; and
\* plugin_shutdown has set the signal when it comes to the Producer and Consumer.
C6_WaitInterruptible ==
    /\ (ppc = "wait" /\ wait_event) =>
           (ENABLED ProducerWaitReturn /\ ~ENABLED ProducerWaitElapse)
    /\ mpc \in {"sd_producer", "sd_consumer"} => wait_event

\* the signal is set while the Producer waits on a timeout that has not run out
C6_Witness == ppc = "wait" /\ wait_event /\ timeout > 0 /\ ~expired

\* C7: every statement of plugin_shutdown raises nothing; when it returns the
\* signal is set and both references are None; and run with no session (never
\* started, or already shut down) it changes nothing but setting the signal.
C7_ShutdownIdempotent ==
    [][(mpc \in {"sd_set", "sd_producer", "sd_consumer"} /\ mpc' # mpc) =>
          /\ mpc' # "raised"
          /\ mpc' = "idle" => (wait_event' /\ producer' = None /\ consumer' = None)
          /\ (producer = None /\ consumer = None) =>
                 UNCHANGED <<producer, consumer, is_stopped, handle, restart,
                             BUCKET_SIZE>>
          /\ (producer = None /\ consumer = None /\ wait_event) =>
                 UNCHANGED wait_event]_vars

\* a second plugin_shutdown of a session reaches its last statement
C7_Witness ==
    mpc = "sd_consumer" /\ sessions > 0 /\ producer = None /\ consumer = None
    /\ is_stopped.C

\* C8 (as claimed): with repeatLoop and batch pacing over n >= 1 rows, the k-th
\* item pushed is row ((k-1) mod n) + 1, and the Producer does not end.
C8_LoopReplaysRows ==
    (Started /\ phandle.repeatLoop /\ phandle.ingestMode = "batch"
             /\ ~phandle.timestampFromFile /\ Len(recording) >= 1) =>
        /\ \A k \in 1..Len(pushed) :
               pushed[k].data = << recording[((k - 1) % Len(recording)) + 1].v >>
        /\ ppc \notin {"done", "crashed"}

\* C9 (as claimed): without repeatLoop, a Producer that has reached end-of-data
\* is not killed by it: it goes on to signal, release and return.
C9_EndOfDataOrderly ==
    (Started /\ ~phandle.repeatLoop /\ eof_reached) => ppc # "crashed"

\* the records of the first k items pushed
RECURSIVE Records(_)
Records(k) == IF k = 0 THEN 0 ELSE Records(k - 1) + Len(pushed[k].data)

\* C10: in burst mode every item pushed holds between 1 and burstSize records,
\* they are the next rows of the recording in order, and an item of fewer than
\* burstSize records ends at the recording's last row.
C10_BurstUnits ==
    (Started /\ phandle.ingestMode = "burst") =>
        \A k \in 1..Len(pushed) :
            LET u == pushed[k].data
                before == Records(k - 1) % Len(recording)
            IN  /\ Len(u) >= 1 /\ Len(u) <= phandle.burstSize
                /\ before + Len(u) <= Len(recording)
                /\ \A i \in 1..Len(u) : u[i] = recording[before + i].v
                /\ Len(u) < phandle.burstSize => before + Len(u) = Len(recording)

\* a full burst was followed by the short burst at end-of-data, and the next
\* pass began
C10_Witness ==
    /\ Started /\ phandle.ingestMode = "burst" /\ phandle.burstSize = 2
    /\ Len(pushed) >= 3
    /\ Len(pushed[1].data) = 2 /\ Len(pushed[2].data) = 1

\* the session replays by the timestamps of its recording
TimestampReplay == phandle.ingestMode # "burst" /\ phandle.timestampFromFile

\* the row of record v (a row's content is its index in the recording)
RowOf(v) == recording[v]

\* C11: under timestamp replay the wait before the first record emitted is
\* nominally 0 and the wait before a later record is its source timestamp less
\* that of the record emitted before it, whatever the sampleRate; when that is
\* zero or negative the wait is over at once, without error.
C11_DelayIsTimestampDifference ==
    (Started /\ TimestampReplay /\ ppc = "wait" /\ Len(sensor_data) > 0
             /\ RowOf(sensor_data[1]).kind = "ok"
             /\ (Len(pushed) > 0 => RowOf(pushed[Len(pushed)].data[1]).kind = "ok")) =>
        LET d == IF Len(pushed) = 0 THEN 0
                 ELSE (RowOf(sensor_data[1]).ts
                          - RowOf(pushed[Len(pushed)].data[1]).ts) * Micros
        IN  /\ next_iteration_secs = <<d>>
            /\ timeout \in { d - e : e \in Elapsed }
            /\ d <= 0 => (ENABLED ProducerWaitReturn /\ ~ENABLED ProducerWaitElapse)

\* at sampleRate 2 the second record waits the 30 s between its timestamp and
\* the first record's
C11_Witness ==
    /\ Started /\ TimestampReplay /\ phandle.sampleRate = 2
    /\ ppc = "wait" /\ Len(pushed) = 1 /\ sensor_data = <<2>>
    /\ next_iteration_secs = <<30 * Micros>> /\ timeout = 30 * Micros

\* one of the fields that ask for a restart differs between handles old and new
KeyFieldDiffers(old, new) ==
    \/ old.csvFilename # new.csvFilename
    \/ old.timestampFromFile # new.timestampFromFile
    \/ old.sampleRate # new.sampleRate
    \/ old.ingestMode # new.ingestMode
    \/ old.burstSize # new.burstSize
    \/ old.burstInterval # new.burstInterval
    \/ old.repeatLoop # new.repeatLoop

C13_FailedTickSkipped ==
    (Started /\ TimestampReplay) =>
        /\ (ppc \in {"wait", "acquire", "put"} /\ Len(sensor_data) > 0) =>
               RowOf(sensor_data[1]).kind = "ok"
        /\ \A k \in 1..Len(pushed) : RowOf(pushed[k].data[1]).kind = "ok"

\* C14 (as claimed): an error on one row does not end the pass: end-of-data is
\* reached, and the generator is finished, only past the recording's last row.
C14_ReadErrorNotFatal ==
    Started =>
        /\ eof_reached => iter_sensor_data.pos = Len(recording)
        /\ iter_sensor_data.done => iter_sensor_data.pos = Len(recording)

\* C20 (as claimed): under timestamp replay with repeatLoop, the first record of
\* every pass waits nominally 0 (a zero or negative value counting as 0, as in
\* C11): nothing of the pass before it makes it wait.
C20_RestartReanchorsPacing ==
    (Started /\ TimestampReplay /\ phandle.repeatLoop
             /\ ppc = "wait" /\ sensor_data = <<1>> /\ RowOf(1).kind = "ok") =>
        /\ next_iteration_secs # << >>
        /\ next_iteration_secs[1] <= 0

\* C15: whatever the ingest call does, the dispatch task ends in one of three
\* ways: a cancellation or a RuntimeError is swallowed without a log; a
\* RuntimeWarning is logged and not raised again; any other failure is logged
\* and raised again as DataRetrievalError, in the task. The step of the task
\* changes nothing of the Producer, the Consumer, the queue or its lock.
C15_DispatchOutcomes ==
    [][dispatched' # dispatched =>
          LET o == task_outcome'
          IN  /\ o.raised \in {"none", "CancelledError", "RuntimeError",
                                "NotImplementedError"} =>
                     (~o.logged /\ o.error = None)
              /\ o.raised = "RuntimeWarning" => (o.logged /\ o.error = None)
              /\ o.raised \in {"Warning", "ValueError"} =>
                     (o.logged /\ o.error = "DataRetrievalError")
              /\ o.raised \in AddReadingsOutcomes
              /\ UNCHANGED <<qvars, pvars, cvars, pushed, taken>>]_vars

\* a task has ended with DataRetrievalError and the Producer and the Consumer
\* have gone on to push and take another item
C15_Witness ==
    /\ task_outcome.error = "DataRetrievalError" /\ dispatched = 1
    /\ Len(taken) >= 2 /\ ppc \notin {"done", "crashed"}

\* C16: the step of Producer.run from the put to the end of the iteration gives
\* the lock up (notify, release) exactly when, after the put if there was one,
\* the queue is full or this iteration reached end-of-data; a put that leaves
\* room, with no end-of-data, keeps the lock.
C16_SignalIffFullOrEof ==
    [][(ppc = "put" /\ ppc' # "put" /\ sessions' = sessions) =>
          ((lock.owner = "P" /\ lock'.owner = None)
              <=> (Len(bucket') >= maxsize \/ eof_reached))]_vars

\* the Producer has put an item into a queue with room left and goes on to the
\* next iteration holding the lock
C16_Witness ==
    /\ ppc = "tick" /\ lock.owner = "P" /\ ~eof_reached
    /\ Len(bucket) >= 1 /\ Len(bucket) < maxsize

\* C19: the lock is held at most once; the Producer is at its put, notify and
\* release only as the lock's owner, having skipped the acquire when it held
\* the lock already, and the Consumer is at its gets, notify and release only
\* as the lock's owner.
C19_LockDiscipline ==
    /\ lock.count <= 1
    /\ lock.count = 0 <=> lock.owner = None
    /\ ppc = "put" => (lock.owner = "P" /\ lock.count = 1)
    /\ cpc = "drain" => (lock.owner = "C" /\ lock.count = 1)

\* the Producer comes to the acquire holding the lock
C19_Witness == ppc = "acquire" /\ lock.owner = "P" /\ lock.count = 1

\* C17 (as claimed): no state is reached in which the Producer, holding the
\* lock, is held in its put by a full queue while the Consumer waits for the
\* lock.
C17_NoDeadlock ==
    ~(/\ ppc = "put" /\ PutsUnit /\ Full(bucket) /\ lock.owner = "P"
      /\ cpc = "acquire")

\* C18 (as claimed): under fair scheduling the i-th item pushed is in the end
\* taken by the Consumer and submitted (or the Producer has come to the last
\* iteration followed).
C18_EveryPushTaken ==
    \A i \in 1..MaxTicks :
        (Len(pushed) >= i) ~> (Len(taken) >= i \/ ticks >= MaxTicks)

\* C21 (as claimed): a plugin_reconfigure whose new configuration changes a key
\* field and is rejected by plugin_init leaves the session as it was: the two
\* references, the thread objects and the signal are unchanged, as is the
\* handle the host holds.
C21_FailedReconfigureKeepsSession ==
    [][(UNCHANGED <<mpc, ppc, cpc, expired, bucket>> /\ producer # None) =>
       \A nc \in NewConfigs(handle) :
          (plugin_reconfigure(nc) /\ KeyFieldDiffers(handle, nc)
                                  /\ plugin_init_errors(nc)) =>
              UNCHANGED <<producer, consumer, wait_event, is_stopped, handle,
                          restart>>]_vars

====
